---- MODULE Spec2Model ----
(***************************************************************************)
(* Health plan comparison calculator (src/src/App.tsx).                    *)
(*                                                                         *)
(* Money is modelled in integer cents: 176 dollars is 17600, the per-pay   *)
(* premium 81.23 is 8123.  Entered amounts are multiples of 5 cents, so    *)
(* that the 20% coinsurance of the source is an exact integer number of    *)
(* cents.  The source computes in IEEE doubles; multiplication by 0.2 and  *)
(* Math.min/Math.max are monotone, and on the catalog's whole-dollar       *)
(* scenarios the double results are exact.                                 *)
(***************************************************************************)
EXTENDS Integers, Sequences, FiniteSets, TLC

VARIABLES
  coverage,              \* useState<Coverage>           (line 141)
  displayMode,           \* useState<DisplayMode>        (line 142)
  expectedSpend,         \* useState(0)                  (line 143)
  employeeContribution,  \* useState(0)                  (line 144)
  dExpectedSpend,        \* useDeferredValue             (line 146)
  dEmployeeContribution, \* useDeferredValue             (line 147)
  maxMatchForCoverage,   \* useMemo                      (lines 152-159)
  totalInclMatch,        \* useMemo, before currency()   (lines 161-167)
  calcResults            \* useMemo                      (lines 169-208)

vars == <<coverage, displayMode, expectedSpend, employeeContribution,
          dExpectedSpend, dEmployeeContribution, maxMatchForCoverage,
          totalInclMatch, calcResults>>

Dollars(n) == n * 100

Min(a, b) == IF a <= b THEN a ELSE b

Max(a, b) == IF a >= b THEN a ELSE b

\* The value of a property read that finds no such property.  No amount of the
\* catalog is negative, so -1 is distinct from every configured amount.
Undefined == -1

\* obj[key] in JavaScript: the property's value, or undefined.
Get(obj, key) == IF key \in DOMAIN obj THEN obj[key] ELSE Undefined

-----------------------------------------------------------------------------
\* Data (immutable).  The pharmacy text is display-only and left out.

planData ==
  [ traditional |->
      [ name |-> "SelectHealth Traditional",
        costs |-> [ employee |-> [monthly |-> 17600, pay |-> 8123],
                    spouse   |-> [monthly |-> 40100, pay |-> 18508],
                    children |-> [monthly |-> 33000, pay |-> 15231],
                    family   |-> [monthly |-> 59900, pay |-> 27646] ],
        hsaMatch |-> [employee |-> 0, spouse |-> 0, children |-> 0, family |-> 0],
        details |-> [ deductible |-> [person |-> 75000, family |-> 225000],
                      oopMax     |-> [person |-> 350000, family |-> 700000] ] ],
    hdhpA |->
      [ name |-> "SelectHealth HDHP Plan A",
        costs |-> [ employee |-> [monthly |-> 8800, pay |-> 4062],
                    spouse   |-> [monthly |-> 19800, pay |-> 9138],
                    children |-> [monthly |-> 14800, pay |-> 6831],
                    family   |-> [monthly |-> 29700, pay |-> 13708] ],
        hsaMatch |-> [employee |-> 60000, spouse |-> 120000,
                      children |-> 120000, family |-> 120000],
        details |-> [ deductible |-> [employeeOnly |-> 170000, twoPlus |-> 340000],
                      oopMax     |-> [person |-> 350000, family |-> 700000] ] ],
    hdhpB |->
      [ name |-> "SelectHealth HDHP Plan B",
        costs |-> [ employee |-> [monthly |-> 2500, pay |-> 1154],
                    spouse   |-> [monthly |-> 5500, pay |-> 2538],
                    children |-> [monthly |-> 5200, pay |-> 2385],
                    family   |-> [monthly |-> 8200, pay |-> 3785] ],
        hsaMatch |-> [employee |-> 60000, spouse |-> 120000,
                      children |-> 120000, family |-> 120000],
        details |-> [ deductible |-> [employeeOnly |-> 500000, twoPlus |-> 1000000],
                      oopMax     |-> [person |-> 600000, family |-> 1200000] ] ] ]

Coverage == {"employee", "spouse", "children", "family"}

DisplayMode == {"monthly", "pay"}

PLAN_ORDER == <<planData.traditional, planData.hdhpA, planData.hdhpB>>

PlanIndex == 1..Len(PLAN_ORDER)

-----------------------------------------------------------------------------
\* Helpers

coverageMaxHSA(c) == IF c = "employee" THEN 440000 ELSE 875000

premiumFor(plan, c, mode) ==
  IF mode = "monthly" THEN plan.costs[c].monthly ELSE plan.costs[c].pay

employerMatchFor(plan, c) ==
  LET m == Get(plan.hsaMatch, c)
  IN  IF m = Undefined THEN 0 ELSE m


\* thresholdsFor taking only "family" for a tier of several enrollees
thresholdsFor_FamilyOnly(plan, c) ==
  LET d == plan.details.deductible
      o == plan.details.oopMax
      deductible ==
        IF Get(d, "employeeOnly") # Undefined
        THEN IF c = "family" THEN Get(d, "twoPlus") ELSE Get(d, "employeeOnly")
        ELSE IF c = "family" THEN Get(d, "family") ELSE Get(d, "person")
      oopMax == IF c = "family" THEN Get(o, "family") ELSE Get(o, "person")
  IN  [deductible |-> deductible, oopMax |-> oopMax]

thresholdsFor(plan, c) ==
  LET d == plan.details.deductible
      o == plan.details.oopMax
      deductible ==
        IF Get(d, "employeeOnly") # Undefined
        THEN IF c = "employee" THEN Get(d, "employeeOnly") ELSE Get(d, "twoPlus")
        ELSE IF c = "employee" THEN Get(d, "person") ELSE Get(d, "family")
      oopMax == IF c = "employee" THEN Get(o, "person") ELSE Get(o, "family")
  IN  [deductible |-> deductible, oopMax |-> oopMax]


\* totalContributionIncludingMatch adding the whole cap whatever was contributed
totalContributionIncludingMatch_WholeCap(matchCap, employee) ==
  IF matchCap <= 0 THEN employee ELSE employee + matchCap

totalContributionIncludingMatch(matchCap, employee) ==
  IF matchCap <= 0 THEN employee
  ELSE IF employee >= matchCap THEN employee + matchCap
  ELSE employee * 2

-----------------------------------------------------------------------------
\* The calculator: the body of calcResults' PLAN_ORDER.map.

\* coinsuranceRate = 0.2, as a percentage
coinsuranceRate == 20


\* the annual premium taken from the per-pay-period figure, 26 pay periods
annualEmployeePremiumCost_FromPay(plan, c) == 0 - (plan.costs[c].pay * 26)

annualEmployeePremiumCost(plan, c) == 0 - (plan.costs[c].monthly * 12)


\* hsaBenefit with the larger of the two taken
hsaBenefit_Max(contribution, match) == Max(contribution, match)

hsaBenefit(contribution, match) == Min(contribution, match)


\* preDeductibleCost without the cap at the deductible
preDeductibleCost_NoCap(spend, deductible) == 0 - spend

preDeductibleCost(spend, deductible) == 0 - Min(spend, deductible)


\* postRaw without the cap at oopMax - deductible
postRaw_NoCap(spend, deductible, oopMax) ==
  IF spend > deductible
  THEN ((spend - deductible) * coinsuranceRate) \div 100
  ELSE 0

\* postRaw with the cap taken from the spend instead of the deductible
postRaw_CapFromSpend(spend, deductible, oopMax) ==
  IF spend > deductible
  THEN LET coinsurancePortion == ((spend - deductible) * coinsuranceRate) \div 100
           capPortion == Max(oopMax - spend, 0)
       IN  Min(coinsurancePortion, capPortion)
  ELSE 0

postRaw(spend, deductible, oopMax) ==
  IF spend > deductible
  THEN LET coinsurancePortion == ((spend - deductible) * coinsuranceRate) \div 100
           capPortion == Max(oopMax - deductible, 0)
       IN  Min(coinsurancePortion, capPortion)
  ELSE 0

CalcPlan(plan, c, contribution, spend) ==
  LET t == thresholdsFor(plan, c)
      premium == annualEmployeePremiumCost(plan, c)
      benefit == hsaBenefit(contribution, employerMatchFor(plan, c))
      pre == preDeductibleCost(spend, t.deductible)
      post == 0 - postRaw(spend, t.deductible, t.oopMax)
  IN  [ plan |-> plan.name,
        annualEmployeePremiumCost |-> premium,
        hsaBenefit |-> benefit,
        preDeductibleCost |-> pre,
        postDeductibleCost |-> post,
        totalSpending |-> premium + benefit + pre + post ]

CalcResults(c, contribution, spend) ==
  [i \in PlanIndex |-> CalcPlan(PLAN_ORDER[i], c, contribution, spend)]

MaxMatch(c) ==
  Max(planData.hdhpA.hsaMatch[c], planData.hdhpB.hsaMatch[c])

\* The premium row of the comparison table, before currency().
premiumShown ==
  [i \in PlanIndex |-> premiumFor(PLAN_ORDER[i], coverage, displayMode)]

hsaMaxByCoverage == coverageMaxHSA(coverage)

-----------------------------------------------------------------------------
\* Bounds of the model

\* expected-spend entries: k * 5000 dollars, k in -1..MaxSpendEntries
MaxSpendEntries == 4

\* contribution entries: k * 600 dollars, k in -1..MaxContribEntries
MaxContribEntries == 2

\* calculator spend arguments: k * 2500 dollars, k in -1..MaxSpendArgs
MaxSpendArgs == 8

\* calculator contribution arguments: k * 100 dollars, k in -1..MaxContribArgs
MaxContribArgs == 12

\* match caps handed to totalContributionIncludingMatch: k * 600 dollars,
\* k in -1..MaxMatchCapArgs
MaxMatchCapArgs == 2

-----------------------------------------------------------------------------
\* The text of a number input (e.target.value).  The browser sanitises the
\* value of an <input type="number">: it is either the empty string (nothing
\* entered, or text that is no valid finite number) or a valid number's text.
EmptyText == [empty |-> TRUE, num |-> 0]

NumText(n) == [empty |-> FALSE, num |-> n]

\* Number(text): the empty string converts to 0, a number's text to the number.
Number(text) == IF text.empty THEN 0 ELSE text.num

\* Number.isFinite(val): every number Number() yields from a sanitised input
\* text is finite; NaN and the infinities are not among the modelled numbers.
IsFinite(val) == val \in Int

SpendEntries ==
  {EmptyText} \cup {NumText(k * Dollars(5000)) : k \in -1..MaxSpendEntries}

ContribEntries ==
  {EmptyText}
    \cup {NumText(k * Dollars(600)) : k \in -1..MaxContribEntries}
    \cup {NumText(coverageMaxHSA(c) + d) : c \in Coverage, d \in {0, Dollars(50)}}

-----------------------------------------------------------------------------
\* The component HealthPlanComparison

\* A render: the memoised values recomputed from the state it renders.
Render ==
  /\ maxMatchForCoverage' = MaxMatch(coverage')
  /\ totalInclMatch' =
       totalContributionIncludingMatch(MaxMatch(coverage'), dEmployeeContribution')
  /\ calcResults' = CalcResults(coverage', dEmployeeContribution', dExpectedSpend')

Init ==
  /\ coverage = "family"
  /\ displayMode = "pay"
  /\ expectedSpend = 0
  /\ employeeContribution = 0
  /\ dExpectedSpend = 0
  /\ dEmployeeContribution = 0
  /\ maxMatchForCoverage = MaxMatch("family")
  /\ totalInclMatch = totalContributionIncludingMatch(MaxMatch("family"), 0)
  /\ calcResults = CalcResults("family", 0, 0)

\* coverage select onChange
SetCoverage(c) ==
  /\ coverage' = c
  /\ UNCHANGED <<displayMode, expectedSpend, employeeContribution,
                 dExpectedSpend, dEmployeeContribution>>
  /\ Render

\* display mode select onChange

\* the display mode handler also clearing the entered spend
SetDisplayMode_ResetsSpend(mode) ==
  /\ displayMode' = mode
  /\ expectedSpend' = 0
  /\ dExpectedSpend' = 0
  /\ UNCHANGED <<coverage, employeeContribution, dEmployeeContribution>>
  /\ Render

SetDisplayMode(mode) ==
  /\ displayMode' = mode
  /\ UNCHANGED <<coverage, expectedSpend, employeeContribution,
                 dExpectedSpend, dEmployeeContribution>>
  /\ Render

\* expected spend input onChange
SetExpectedSpend(text) ==
  /\ expectedSpend' = Number(text)
  /\ UNCHANGED <<coverage, displayMode, employeeContribution,
                 dExpectedSpend, dEmployeeContribution>>
  /\ Render

\* contribution input onChange: onSetContribution(Number(e.target.value))
onSetContribution(text) ==
  LET val == Number(text)
      n == IF IsFinite(val) THEN val ELSE 0
  IN  /\ employeeContribution' = Max(0, Min(hsaMaxByCoverage, n))
      /\ UNCHANGED <<coverage, displayMode, expectedSpend,
                     dExpectedSpend, dEmployeeContribution>>
      /\ Render

\* the deferred re-render bringing only the expected spend up to date
DeferredRender_SpendOnly ==
  /\ \/ dExpectedSpend # expectedSpend
     \/ dEmployeeContribution # employeeContribution
  /\ dExpectedSpend' = expectedSpend
  /\ UNCHANGED <<coverage, displayMode, expectedSpend, employeeContribution,
                 dEmployeeContribution>>
  /\ Render

\* The deferred re-render: both useDeferredValue hooks catch up with the values
\* they defer.
DeferredRender ==
  /\ \/ dExpectedSpend # expectedSpend
     \/ dEmployeeContribution # employeeContribution
  /\ dExpectedSpend' = expectedSpend
  /\ dEmployeeContribution' = employeeContribution
  /\ UNCHANGED <<coverage, displayMode, expectedSpend, employeeContribution>>
  /\ Render

Next ==
  \/ \E c \in Coverage : SetCoverage(c)
  \/ \E mode \in DisplayMode : SetDisplayMode(mode)
  \/ \E text \in SpendEntries : SetExpectedSpend(text)
  \/ \E text \in ContribEntries : onSetContribution(text)
  \/ DeferredRender

Spec == Init /\ [][Next]_vars

\* React schedules the deferred re-render whenever a deferred value lags and
\* completes it unless a new update interrupts it: once no update arrives any
\* more, a pending deferred re-render is eventually carried out.
FairSpec == Spec /\ WF_vars(DeferredRender)

-----------------------------------------------------------------------------
\* The calculator and the helpers as pure functions: the arguments are drawn
\* from bounded sets and each call recomputes the results from them.  The
\* arguments are the values calcResults closes over (coverage,
\* dEmployeeContribution, dExpectedSpend) and the match cap handed to
\* totalContributionIncludingMatch.

\* thresholds of the catalog, where the calculator changes regime
Thresholds ==
  UNION { { thresholdsFor(PLAN_ORDER[i], c).deductible,
            thresholdsFor(PLAN_ORDER[i], c).oopMax,
            \* the spend from which the coinsurance is capped
            thresholdsFor(PLAN_ORDER[i], c).deductible
              + 5 * ( thresholdsFor(PLAN_ORDER[i], c).oopMax
                      - thresholdsFor(PLAN_ORDER[i], c).deductible ) }
          : i \in PlanIndex, c \in Coverage }

SpendArgs ==
  {k * Dollars(2500) : k \in -1..MaxSpendArgs}
    \cup {t + d : t \in Thresholds, d \in {-5, 0, 5}}

ContribArgs ==
  {k * Dollars(100) : k \in -1..MaxContribArgs}
    \cup {coverageMaxHSA(c) + d : c \in Coverage, d \in {0, 5}}

MatchCapArgs == {k * Dollars(600) : k \in -1..MaxMatchCapArgs}

Recompute ==
  /\ totalInclMatch' =
       totalContributionIncludingMatch(maxMatchForCoverage', dEmployeeContribution')
  /\ calcResults' = CalcResults(coverage', dEmployeeContribution', dExpectedSpend')
  /\ expectedSpend' = dExpectedSpend'
  /\ employeeContribution' = dEmployeeContribution'
  /\ UNCHANGED displayMode

CalcInit ==
  /\ coverage \in Coverage
  /\ displayMode = "pay"
  /\ dExpectedSpend \in SpendArgs
  /\ dEmployeeContribution \in ContribArgs
  /\ maxMatchForCoverage \in MatchCapArgs
  /\ expectedSpend = dExpectedSpend
  /\ employeeContribution = dEmployeeContribution
  /\ totalInclMatch =
       totalContributionIncludingMatch(maxMatchForCoverage, dEmployeeContribution)
  /\ calcResults = CalcResults(coverage, dEmployeeContribution, dExpectedSpend)

CallWithCoverage(c) ==
  /\ coverage' = c
  /\ UNCHANGED <<dExpectedSpend, dEmployeeContribution, maxMatchForCoverage>>
  /\ Recompute

CallWithSpend(spend) ==
  /\ dExpectedSpend' = spend
  /\ UNCHANGED <<coverage, dEmployeeContribution, maxMatchForCoverage>>
  /\ Recompute

CallWithContribution(contribution) ==
  /\ dEmployeeContribution' = contribution
  /\ UNCHANGED <<coverage, dExpectedSpend, maxMatchForCoverage>>
  /\ Recompute

CallWithMatchCap(matchCap) ==
  /\ maxMatchForCoverage' = matchCap
  /\ UNCHANGED <<coverage, dExpectedSpend, dEmployeeContribution>>
  /\ Recompute

CalcNext ==
  \/ \E c \in Coverage : CallWithCoverage(c)
  \/ \E spend \in SpendArgs : CallWithSpend(spend)
  \/ \E contribution \in ContribArgs : CallWithContribution(contribution)
  \/ \E matchCap \in MatchCapArgs : CallWithMatchCap(matchCap)

CalcSpec == CalcInit /\ [][CalcNext]_vars

-----------------------------------------------------------------------------
\* Properties of the calculator (checked under CalcSpec)

Abs(a) == IF a < 0 THEN 0 - a ELSE a

\* what the employee pays out of pocket according to one plan's result
OutOfPocket(r) == Abs(r.preDeductibleCost) + Abs(r.postDeductibleCost)

\* C1: out-of-pocket cap.  For every plan, every coverage tier and every
\* expected spend >= 0, postDeductibleCost <= 0 and |preDeductibleCost| +
\* |postDeductibleCost| is at most the out-of-pocket maximum thresholdsFor
\* selects for the plan and the tier.
OutOfPocketCap ==
  dExpectedSpend >= 0 =>
    \A i \in PlanIndex :
      /\ calcResults[i].postDeductibleCost <= 0
      /\ OutOfPocket(calcResults[i]) <= thresholdsFor(PLAN_ORDER[i], coverage).oopMax

\* C1 witness: a spend beyond the point where the coinsurance is capped; the
\* out-of-pocket total of HDHP Plan B sits exactly at its maximum.
OutOfPocketCapWitness ==
  /\ dExpectedSpend > thresholdsFor(PLAN_ORDER[3], coverage).oopMax
  /\ calcResults[3].postDeductibleCost < 0
  /\ OutOfPocket(calcResults[3]) = thresholdsFor(PLAN_ORDER[3], coverage).oopMax
  /\ ((dExpectedSpend - thresholdsFor(PLAN_ORDER[3], coverage).deductible)
        * coinsuranceRate) \div 100
       > thresholdsFor(PLAN_ORDER[3], coverage).oopMax
           - thresholdsFor(PLAN_ORDER[3], coverage).deductible

\* C3: for every plan, tier and contribution in [0, cap(tier)], hsaBenefit is
\* min(contribution, employer match of the plan for the tier); it exceeds
\* neither the match nor the contribution and is 0 for the traditional plan.
HsaBenefitIsMinOfContributionAndMatch ==
  (0 <= dEmployeeContribution /\ dEmployeeContribution <= coverageMaxHSA(coverage)) =>
    \A i \in PlanIndex :
      LET match == PLAN_ORDER[i].hsaMatch[coverage]
          benefit == calcResults[i].hsaBenefit
      IN  /\ benefit = Min(dEmployeeContribution, match)
          /\ benefit <= match
          /\ benefit <= dEmployeeContribution
          /\ (PLAN_ORDER[i] = planData.traditional => benefit = 0)

\* C3 witness: a contribution within the tier's cap and above the match, so
\* that the match limits the benefit of the HDHP plans.
HsaBenefitWitness ==
  /\ dEmployeeContribution <= coverageMaxHSA(coverage)
  /\ dEmployeeContribution > PLAN_ORDER[2].hsaMatch[coverage]
  /\ calcResults[2].hsaBenefit = PLAN_ORDER[2].hsaMatch[coverage]
  /\ calcResults[2].hsaBenefit > 0
  /\ calcResults[1].hsaBenefit = 0

\* C4: for every plan, tier and expected spend >= 0, preDeductibleCost is
\* -min(spend, deductible): it is <= 0 and its magnitude is at most the
\* effective deductible of the plan and the tier.
PreDeductibleWithinDeductible ==
  dExpectedSpend >= 0 =>
    \A i \in PlanIndex :
      LET deductible == thresholdsFor(PLAN_ORDER[i], coverage).deductible
          pre == calcResults[i].preDeductibleCost
      IN  /\ pre = 0 - Min(dExpectedSpend, deductible)
          /\ pre <= 0
          /\ Abs(pre) <= deductible

\* C4 witness: a spend above the deductible of every plan: each plan's
\* pre-deductible cost is its whole deductible.
PreDeductibleWitness ==
  \A i \in PlanIndex :
    /\ dExpectedSpend > thresholdsFor(PLAN_ORDER[i], coverage).deductible
    /\ calcResults[i].preDeductibleCost
         = 0 - thresholdsFor(PLAN_ORDER[i], coverage).deductible

\* C5: monotonicity.  For every plan and tier, a call with a spend s2 >= s1 >= 0
\* (same tier) gives an out-of-pocket total not smaller than the call with s1.
OutOfPocketMonotone ==
  [][ ( /\ coverage' = coverage
        /\ 0 <= dExpectedSpend
        /\ dExpectedSpend <= dExpectedSpend' )
      => \A i \in PlanIndex :
           OutOfPocket(calcResults[i]) <= OutOfPocket(calcResults'[i]) ]_vars

\* C5 witness: a spend at which HDHP Plan B's coinsurance is already capped, so
\* that its out-of-pocket total stays at the maximum for larger spends, while
\* that of the traditional plan still grows; calls with larger spends follow.
OutOfPocketMonotoneWitness ==
  /\ dExpectedSpend > thresholdsFor(PLAN_ORDER[3], coverage).oopMax
  /\ dExpectedSpend < Dollars(2500) * MaxSpendArgs
  /\ OutOfPocket(calcResults[3]) = thresholdsFor(PLAN_ORDER[3], coverage).oopMax
  /\ calcResults[1].postDeductibleCost < 0
  /\ OutOfPocket(calcResults[1]) < thresholdsFor(PLAN_ORDER[1], coverage).oopMax

\* C6: the worked scenarios over the shipped catalog (amounts in cents).
\* Traditional / family / spend 0 / contribution 0: premium -7188, benefit 0,
\* pre 0, post 0, total -7188.  HDHP Plan A / employee-only / spend 5000 /
\* contribution 600: premium -1056, benefit 600, pre -1700, post -660, total
\* -2816.  HDHP Plan B / family / spend 20000 / contribution 1200: pre -10000,
\* post -2000 (exactly at the out-of-pocket maximum), benefit 1200.  In each
\* case the total is premium + benefit + pre + post.
WorkedScenarios ==
  /\ ( /\ coverage = "family"
       /\ dExpectedSpend = 0
       /\ dEmployeeContribution = 0 )
     => /\ calcResults[1].plan = planData.traditional.name
        /\ calcResults[1].annualEmployeePremiumCost = 0 - Dollars(7188)
        /\ calcResults[1].hsaBenefit = 0
        /\ calcResults[1].preDeductibleCost = 0
        /\ calcResults[1].postDeductibleCost = 0
        /\ calcResults[1].totalSpending = 0 - Dollars(7188)
  /\ ( /\ coverage = "employee"
       /\ dExpectedSpend = Dollars(5000)
       /\ dEmployeeContribution = Dollars(600) )
     => /\ calcResults[2].plan = planData.hdhpA.name
        /\ calcResults[2].annualEmployeePremiumCost = 0 - Dollars(1056)
        /\ calcResults[2].hsaBenefit = Dollars(600)
        /\ calcResults[2].preDeductibleCost = 0 - Dollars(1700)
        /\ calcResults[2].postDeductibleCost = 0 - Dollars(660)
        /\ calcResults[2].totalSpending = 0 - Dollars(2816)
  /\ ( /\ coverage = "family"
       /\ dExpectedSpend = Dollars(20000)
       /\ dEmployeeContribution = Dollars(1200) )
     => /\ calcResults[3].plan = planData.hdhpB.name
        /\ calcResults[3].preDeductibleCost = 0 - Dollars(10000)
        /\ calcResults[3].postDeductibleCost = 0 - Dollars(2000)
        /\ OutOfPocket(calcResults[3]) = planData.hdhpB.details.oopMax.family
        /\ calcResults[3].hsaBenefit = Dollars(1200)
  /\ \A i \in PlanIndex :
       calcResults[i].totalSpending
         = calcResults[i].annualEmployeePremiumCost + calcResults[i].hsaBenefit
           + calcResults[i].preDeductibleCost + calcResults[i].postDeductibleCost

\* C6 witness: the HDHP Plan A scenario has been computed.
WorkedScenariosWitness ==
  /\ coverage = "employee"
  /\ dExpectedSpend = Dollars(5000)
  /\ dEmployeeContribution = Dollars(600)
  /\ calcResults[2].totalSpending = 0 - Dollars(2816)

\* C7: totalContributionIncludingMatch(matchCap, employee) is employee when
\* matchCap <= 0, employee + matchCap when employee >= matchCap, employee * 2
\* otherwise; for matchCap > 0 and employee >= 0 that is employee +
\* min(employee, matchCap); (0, 500) gives 500, (600, 600) gives 1200 and
\* (600, 300) gives 600.
TotalIncludingMatch ==
  LET matchCap == maxMatchForCoverage
      employee == dEmployeeContribution
  IN  /\ matchCap <= 0 => totalInclMatch = employee
      /\ (matchCap > 0 /\ employee >= matchCap) => totalInclMatch = employee + matchCap
      /\ (matchCap > 0 /\ employee < matchCap) => totalInclMatch = employee * 2
      /\ (matchCap > 0 /\ employee >= 0)
           => totalInclMatch = employee + Min(employee, matchCap)
      /\ (matchCap = 0 /\ employee = Dollars(500)) => totalInclMatch = Dollars(500)
      /\ (matchCap = Dollars(600) /\ employee = Dollars(600))
           => totalInclMatch = Dollars(1200)
      /\ (matchCap = Dollars(600) /\ employee = Dollars(300))
           => totalInclMatch = Dollars(600)

\* C7 witness: the call (600, 300), a contribution below the cap, doubled.
TotalIncludingMatchWitness ==
  /\ maxMatchForCoverage = Dollars(600)
  /\ dEmployeeContribution = Dollars(300)
  /\ totalInclMatch = Dollars(600)

\* C8: threshold lookup.  For every plan and tier the deductible is the plan's
\* employeeOnly (or person) value for employee-only coverage and its twoPlus (or
\* family) value for the three other tiers, by the shape the plan has; the
\* out-of-pocket maximum is the person value for employee-only coverage and the
\* family value otherwise; neither is a value other than the two configured,
\* nor undefined.  The calculator charges that deductible once the spend
\* reaches it.
ThresholdLookup ==
  \A i \in PlanIndex :
    LET d == PLAN_ORDER[i].details.deductible
        o == PLAN_ORDER[i].details.oopMax
        t == thresholdsFor(PLAN_ORDER[i], coverage)
        single == (coverage = "employee")
        expected ==
          IF "employeeOnly" \in DOMAIN d
          THEN IF single THEN d.employeeOnly ELSE d.twoPlus
          ELSE IF single THEN d.person ELSE d.family
    IN  /\ t.deductible = expected
        /\ t.oopMax = IF single THEN o.person ELSE o.family
        /\ t.deductible \in {d[k] : k \in DOMAIN d}
        /\ t.oopMax \in {o[k] : k \in DOMAIN o}
        /\ t.deductible # Undefined
        /\ t.oopMax # Undefined
        /\ dExpectedSpend >= expected
             => calcResults[i].preDeductibleCost = 0 - expected

\* C8 witness: a tier of several enrollees other than family, with a spend
\* above every deductible: the traditional plan is charged its family
\* deductible and the HDHP plans their twoPlus deductible.
ThresholdLookupWitness ==
  /\ coverage = "spouse"
  /\ dExpectedSpend > planData.hdhpB.details.deductible.twoPlus
  /\ calcResults[1].preDeductibleCost = 0 - planData.traditional.details.deductible.family
  /\ calcResults[2].preDeductibleCost = 0 - planData.hdhpA.details.deductible.twoPlus
  /\ calcResults[3].preDeductibleCost = 0 - planData.hdhpB.details.deductible.twoPlus

-----------------------------------------------------------------------------
\* Properties of the component (checked under Spec)

\* C2: after any sequence of UI operations the contribution handed to the
\* calculator lies in [0, cap(current coverage tier)], the cap being 4400 for
\* employee-only coverage and 8750 for every other tier.
ContributionWithinTierCap ==
  /\ 0 <= dEmployeeContribution
  /\ dEmployeeContribution
       <= (IF coverage = "employee" THEN Dollars(4400) ELSE Dollars(8750))

\* C9: after any sequence of UI operations the expected spend handed to the
\* calculator is a finite number >= 0, so that preDeductibleCost and
\* postDeductibleCost are <= 0 in every reachable state.
ExpectedSpendNormalized ==
  /\ dExpectedSpend \in Nat
  /\ \A i \in PlanIndex :
       /\ calcResults[i].preDeductibleCost <= 0
       /\ calcResults[i].postDeductibleCost <= 0

\* C10: annualEmployeePremiumCost is -(monthly premium of the plan for the
\* tier * 12) for every plan and tier, and a change of the display mode changes
\* only the premium shown in the comparison table (to the figure stored for the
\* new mode): the five calculated figures of every plan, the coverage tier, the
\* expected spend and the HSA contribution stay as they were.
PremiumAndDisplayModeFrame ==
  /\ [](\A i \in PlanIndex :
          calcResults[i].annualEmployeePremiumCost
            = 0 - (PLAN_ORDER[i].costs[coverage].monthly * 12))
  /\ [][ displayMode' # displayMode
         => /\ calcResults' = calcResults
            /\ UNCHANGED <<coverage, expectedSpend, employeeContribution,
                           dExpectedSpend, dEmployeeContribution>>
            /\ \A i \in PlanIndex :
                 premiumShown'[i] = PLAN_ORDER[i].costs[coverage][displayMode'] ]_vars

\* C10 witness: monthly display, reached by a toggle, with a spend and a
\* contribution entered and computed: the premium shown is the monthly figure
\* while the annual premium cost is twelve times it.
PremiumAndDisplayModeWitness ==
  /\ displayMode = "monthly"
  /\ dExpectedSpend > 0
  /\ dEmployeeContribution > 0
  /\ \A i \in PlanIndex :
       /\ premiumShown[i] = PLAN_ORDER[i].costs[coverage].monthly
       /\ calcResults[i].annualEmployeePremiumCost = 0 - (premiumShown[i] * 12)

\* the user changes no input in this step
InputsUnchanged == UNCHANGED <<coverage, expectedSpend, employeeContribution>>

\* C11: the results shown are at every moment the calculator applied, in the
\* plan order traditional, HDHP Plan A, HDHP Plan B, to the current coverage
\* tier and to the deferred copies of the expected spend and the contribution;
\* the deferred copies may lag the entered values, but once the user stops
\* changing inputs they eventually equal the entered values for good, and the
\* results shown are then the calculator applied to the current inputs.
ResultsFollowDeferredInputs ==
  /\ [](/\ calcResults = CalcResults(coverage, dEmployeeContribution, dExpectedSpend)
        /\ Len(calcResults) = 3
        /\ calcResults[1].plan = planData.traditional.name
        /\ calcResults[2].plan = planData.hdhpA.name
        /\ calcResults[3].plan = planData.hdhpB.name)
  /\ (<>[][InputsUnchanged]_vars)
       => <>[](/\ dExpectedSpend = expectedSpend
               /\ dEmployeeContribution = employeeContribution
               /\ calcResults
                    = CalcResults(coverage, employeeContribution, expectedSpend))

\* C11 witness: both deferred copies lag the entered values: the results shown
\* are those of the deferred copies and differ from those of the current inputs.
ResultsFollowDeferredInputsWitness ==
  /\ dExpectedSpend # expectedSpend
  /\ dEmployeeContribution # employeeContribution
  /\ calcResults = CalcResults(coverage, dEmployeeContribution, dExpectedSpend)
  /\ calcResults # CalcResults(coverage, employeeContribution, expectedSpend)

====
